---- MODULE Spec2Model ----
(***************************************************************************)
(* The persistent-connection manager of src/src/wormhole/_connect.py:      *)
(* the retry policy (backoffPolicy), the automat state machine             *)
(* _ClientMachine with its eight states, its inputs and its outputs, and   *)
(* the collaborators that drive it (the endpoint's connect Deferred, the   *)
(* clock's delayed calls, the transport of the live connection).           *)
(*                                                                         *)
(* automat sets the new state before it runs a transition's outputs, and   *)
(* runs every output of the transition in the order listed; each input     *)
(* below is the composition of its outputs applied to the machine with the *)
(* new state already set.  All inputs are delivered one at a time from the *)
(* event loop; the callbacks of the Deferreds handed to consumers do not   *)
(* call back into the machine, but for the whenConnected Deferreds listed  *)
(* in reentrant, whose callback calls whenConnected() (ReentrantSpec).     *)
(*                                                                         *)
(* Each delivery carries a trace of the calls its outputs make on the      *)
(* collaborators and consumers (field effects), so that the order of the   *)
(* calls within one delivery and a NoTransition can be stated.             *)
(*                                                                         *)
(* Specifications: Spec (any owner, any endpoint), FairSpec and LiveSpec   *)
(* (collaborators that respond), StartOnlySpec and FailFastSpec (owners    *)
(* that use one start mode), ScenarioSpec (an endpoint scripted to fail k  *)
(* times), ProxySpec (a transport that reports a loss again),              *)
(* ReentrantSpec (consumers that call whenConnected from a callback),      *)
(* PolicySpec (the retry policy called on its own).                        *)
(***************************************************************************)
EXTENDS Integers, Sequences, FiniteSets, TLC

\* ------------------------------------------------------------------ bounds
MaxStops == 3          \* stop() calls in a run
MaxWaiters == 2        \* whenConnected() calls in a run
MaxAttempts == 2       \* cap on _failedAttempts
MaxConns == 2          \* connections the endpoint produces in a run
JitterDen == 2         \* jitter() is k/JitterDen, k \in 0..JitterDen-1, in [0,1)
MaxAttemptArg == 5     \* largest attempt handed to the policy on its own
MaxInitialDelay == 2   \* largest initialDelay a policy is built with
MaxMaxDelay == 4       \* largest maxDelay a policy is built with

\* ------------------------------------------------------- program constants
DefaultInitialDelay == 1
DefaultMaxDelay == 60
DefaultFactorNum == 3
DefaultFactorDen == 2

VARIABLES
    state,                \* the automat state of _ClientMachine
    failedAttempts,       \* self._failedAttempts
    connectionInProgress, \* unfired connect Deferreds (self._connectionInProgress is the latest)
    currentConnection,    \* self._currentConnection: a protocol, or 0 when the attribute is absent
    awaitingConnected,    \* self._awaitingConnected: the pending whenConnected Deferreds
    stopWaiters,          \* self._stopWaiters: the pending stop Deferreds
    delayedCalls,         \* the clock's pending calls (self._retryCall is the latest)
    openConnections,      \* protocols whose transport is still connected
    closing,              \* protocols whose transport was told loseConnection()
    protocols,            \* protocols built so far by the factory
    whenConnectedDeferreds, \* every Deferred whenConnected returned: its result and firings
    stopDeferreds,        \* every Deferred stop returned: its number of firings
    stopsSinceStart,      \* stop calls since the last start call (counted up to 2)
    reentrant,            \* the whenConnected Deferreds whose callback calls whenConnected()
    scenario,             \* the scripted endpoint of a run, and what it and the clock were asked
    timeoutForAttempt,    \* self._timeoutForAttempt: the retry policy's parameters
    policyResult          \* the last result of the policy called on its own

vars == <<state, failedAttempts, connectionInProgress, currentConnection,
          awaitingConnected, stopWaiters, delayedCalls, openConnections,
          closing, protocols, whenConnectedDeferreds, stopDeferreds,
          stopsSinceStart, reentrant, scenario,
          timeoutForAttempt, policyResult>>

States == {"init", "connecting_first_time", "connecting", "waiting",
           "connected", "disconnecting", "restarting", "stopped"}

Min(a, b) == IF a <= b THEN a ELSE b

RECURSIVE Pow(_, _)
Pow(b, e) == IF e <= 0 THEN 1 ELSE b * Pow(b, e - 1)

\* the reason a connect attempt failed: CancelledError, or one of the
\* endpoint's own failures
CancelledError == "CancelledError"
Reasons == {"ConnectionRefusedError", "TimeoutError"}
\* what jitter() can return, in units of 1/JitterDen
Jitters == 0..(JitterDen - 1)
\* the machine's runs draw the least and the greatest of them
MachineJitters == {0, JitterDen - 1}

\* ------------------------------------------------------------ retry policy
\* backoffPolicy(initialDelay, maxDelay, factor): the closure's parameters,
\* factor given as the fraction fnum/fden
backoffPolicy(initialDelay, maxDelay, fnum, fden) ==
    [initialDelay |-> initialDelay, maxDelay |-> maxDelay,
     fnum |-> fnum, fden |-> fden]

\* policy(attempt) = min(initialDelay * factor ** attempt, maxDelay) + jitter(),
\* as the exact fraction num/den with den = fden^attempt * JitterDen
policy(p, attempt, jit) ==
    LET d == Pow(p.fden, attempt)
        raw == p.initialDelay * Pow(p.fnum, attempt)
        cap == p.maxDelay * d
    IN [num |-> Min(raw, cap) * JitterDen + jit * d, den |-> d * JitterDen]

_defaultPolicy ==
    backoffPolicy(DefaultInitialDelay, DefaultMaxDelay, DefaultFactorNum, DefaultFactorDen)

\* ------------------------------------------------------------- Deferreds
\* what a Deferred handed to a consumer carries: nothing yet, a protocol,
\* or a Failure (CancelledError or the endpoint's reason)
Pending == [kind |-> "pending", protocol |-> 0, reason |-> ""]
Connection(p) == [kind |-> "connection", protocol |-> p, reason |-> ""]
Failure(f) == [kind |-> "failure", protocol |-> 0, reason |-> f]
NoValue == [kind |-> "none", protocol |-> 0, reason |-> ""]

Deferred == [result |-> Pending, fired |-> 0]
succeed(v) == [result |-> v, fired |-> 1]
fail(v) == [result |-> v, fired |-> 1]

\* Deferred.callback(value): the first firing sets the result; a later one is
\* AlreadyCalledError and is only counted
callback(d, v) ==
    IF d.fired = 0 THEN [result |-> v, fired |-> 1]
    ELSE [d EXCEPT !.fired = Min(@ + 1, 2)]

\* for w in waiting: w.callback(value), over the Deferreds ds
RECURSIVE fireAll(_, _, _)
fireAll(ds, waiting, v) ==
    IF waiting = <<>> THEN ds
    ELSE fireAll([ds EXCEPT ![Head(waiting)] = callback(@, v)], Tail(waiting), v)

\* ------------------------------------------------------------ the machine
\* the machine and its collaborators as one record: the outputs and inputs
\* below map such a record to the record after them; its field effects is
\* the trace of the one delivery and is not kept from one input to the next
Cur ==
    [state |-> state, failedAttempts |-> failedAttempts,
     connectionInProgress |-> connectionInProgress,
     currentConnection |-> currentConnection,
     awaitingConnected |-> awaitingConnected, stopWaiters |-> stopWaiters,
     delayedCalls |-> delayedCalls, openConnections |-> openConnections,
     closing |-> closing, protocols |-> protocols,
     whenConnectedDeferreds |-> whenConnectedDeferreds,
     stopDeferreds |-> stopDeferreds, reentrant |-> reentrant,
     effects |-> <<>>,
     timeoutForAttempt |-> timeoutForAttempt]

\* _ClientMachine.__init__
InitMachine(retryPolicy) ==
    [state |-> "init", failedAttempts |-> 0, connectionInProgress |-> 0,
     currentConnection |-> 0, awaitingConnected |-> <<>>, stopWaiters |-> <<>>,
     delayedCalls |-> <<>>, openConnections |-> {}, closing |-> {},
     protocols |-> 0, whenConnectedDeferreds |-> <<>>, stopDeferreds |-> <<>>,
     reentrant |-> {}, effects |-> <<>>, timeoutForAttempt |-> retryPolicy]

enter(s, st) == [s EXCEPT !.state = st]

\* what the collaborators and the consumers see of one delivered input: the
\* input, then each call the outputs make on them, in the order made
Effect(op, arg) == [op |-> op, arg |-> arg]
Delivered(s, input, arg) == [s EXCEPT !.effects = <<Effect(input, arg)>>]
Did(s, op, arg) == [s EXCEPT !.effects = Append(@, Effect(op, arg))]
DidEach(s, op, args) ==
    [s EXCEPT !.effects = @ \o [i \in 1..Len(args) |-> Effect(op, args[i])]]

\* the calls of one kind within a delivery, in the order made, and their arguments
Only(fx, op) == SelectSeq(fx, LAMBDA e : e.op = op)
Args(fx) == [i \in 1..Len(fx) |-> fx[i].arg]

\* automat raises NoTransition and leaves the machine in its state
NoTransition(s) == Did(s, "NoTransition", 0)

\* ---------------------------------------------------------------- outputs
_connect(s) ==
    Did([s EXCEPT !.connectionInProgress = @ + 1], "endpoint.connect", 0)

_resetFailedAttempts(s) ==
    [s EXCEPT !.failedAttempts = 0]

_waitForStop(s) ==
    LET ds == Append(s.stopDeferreds, Deferred)
    IN Did([s EXCEPT !.stopDeferreds = ds, !.stopWaiters = Append(@, Len(ds))],
           "stopWaiters.append", Len(ds))

\* faulty variant: the delayed call is not cancelled
_stopRetryingForgets(s) == s

_stopRetrying(s) ==
    Did([s EXCEPT !.delayedCalls = SubSeq(@, 1, Len(@) - 1)], "retryCall.cancel", 0)

_disconnect(s) ==
    Did([s EXCEPT !.closing = @ \cup {s.currentConnection}],
        "loseConnection", s.currentConnection)

_currentConnection(s) ==
    [s EXCEPT !.whenConnectedDeferreds = Append(@, succeed(Connection(s.currentConnection)))]

\* faulty variant: in the stopped state the caller is queued, not refused
_noConnectionRegisters(s) ==
    LET ds == Append(s.whenConnectedDeferreds, Deferred)
    IN [s EXCEPT !.whenConnectedDeferreds = ds, !.awaitingConnected = Append(@, Len(ds))]

_noConnection(s) ==
    [s EXCEPT !.whenConnectedDeferreds = Append(@, fail(Failure(CancelledError)))]

_awaitingConnection(s) ==
    LET ds == Append(s.whenConnectedDeferreds, Deferred)
    IN [s EXCEPT !.whenConnectedDeferreds = ds, !.awaitingConnected = Append(@, Len(ds))]

\* whenConnected has a transition in every state
whenConnected(s) ==
    CASE s.state = "connected" -> _currentConnection(s)
      [] s.state = "stopped" -> _noConnection(s)
      [] OTHER -> _awaitingConnection(s)

\* the loop of _unawait, for w in waiting: w.callback(value), over the
\* whenConnected Deferreds of the machine s.  A Deferred in s.reentrant has a
\* consumer callback that calls whenConnected() as it runs (a consumer makes
\* MaxWaiters calls at most): that call is delivered to the machine as it is
\* in the middle of the loop, in the state the transition has already entered.
RECURSIVE fireWaiters(_, _, _)
fireWaiters(s, waiting, v) ==
    IF waiting = <<>> THEN s
    ELSE LET w == Head(waiting)
             fired == Did([s EXCEPT !.whenConnectedDeferreds[w] = callback(@, v),
                                    !.reentrant = @ \ {w}],
                          "whenConnected.callback", w)
             after == IF w \in s.reentrant /\ Len(s.whenConnectedDeferreds) < MaxWaiters
                      THEN whenConnected(Did(fired, "whenConnected", w))
                      ELSE fired
         IN fireWaiters(after, Tail(waiting), v)

\* faulty variant: the waiters are fired last-registered first
_unawaitReversed(s, v) ==
    LET n == Len(s.awaitingConnected)
        reversed == [i \in 1..n |-> s.awaitingConnected[n + 1 - i]]
    IN DidEach([s EXCEPT !.awaitingConnected = <<>>,
                         !.whenConnectedDeferreds = fireAll(@, reversed, v)],
               "whenConnected.callback", reversed)

\* faulty variant: the loop runs over the list with the list left in place
_unawaitNoDrain(s, v) ==
    fireWaiters(s, s.awaitingConnected, v)

\* self._awaitingConnected, waiting = [], self._awaitingConnected, then the loop
_unawait(s, v) ==
    fireWaiters([s EXCEPT !.awaitingConnected = <<>>], s.awaitingConnected, v)

\* faulty variant: the protocol is not recorded as the current connection
_notifyWaitersNoRecord(s, protocol) ==
    _unawait([s EXCEPT !.failedAttempts = 0], Connection(protocol))

\* faulty variant: the failed-attempt counter is not reset
_notifyWaitersNoReset(s, protocol) ==
    _unawait([s EXCEPT !.currentConnection = protocol], Connection(protocol))

_notifyWaiters(s, protocol) ==
    _unawait([s EXCEPT !.failedAttempts = 0, !.currentConnection = protocol],
             Connection(protocol))

\* faulty variant: the waiters are cancelled instead of given the failure
_notifyInitialConnectionFailedCancels(s, f) ==
    _unawait(s, Failure(CancelledError))

_notifyInitialConnectionFailed(s, f) ==
    _unawait(s, Failure(f))

\* faulty variant: the policy is consulted without counting the failure
_waitNoIncrement(s, jit) ==
    LET n == s.failedAttempts
        delay == policy(s.timeoutForAttempt, n, jit)
    IN [s EXCEPT !.delayedCalls = Append(@, [attempt |-> n, jitter |-> jit, delay |-> delay])]

_wait(s, jit) ==
    LET n == s.failedAttempts + 1
        delay == policy(s.timeoutForAttempt, n, jit)
    IN Did([s EXCEPT !.failedAttempts = n,
                     !.delayedCalls = Append(@, [attempt |-> n, jitter |-> jit,
                                                 delay |-> delay])],
           "callLater", n)

\* faulty variant: the waiters are given the failure of an attempt that is retried
_wait1Surfaces(s, f, jit) == _unawait(_wait(s, jit), Failure(f))

_wait1(s, f, jit) == _wait(s, jit)

_forgetConnection(s) ==
    [s EXCEPT !.currentConnection = 0]

\* faulty variant: the waiters are left pending
_cancelConnectWaitersKeeps(s) == s

_cancelConnectWaiters(s) ==
    _unawait(s, Failure(CancelledError))

_cancelConnectWaiters1(s, f) == _cancelConnectWaiters(s)

\* faulty variant: the list of stop waiters is fired but not emptied
_finishStoppingKeepsList(s) ==
    [s EXCEPT !.stopDeferreds = fireAll(@, s.stopWaiters, NoValue)]

\* faulty variant: only the first stop waiter is fired
_finishStoppingFirstOnly(s) ==
    [s EXCEPT !.stopWaiters = <<>>,
              !.stopDeferreds = fireAll(@, SubSeq(s.stopWaiters, 1, 1), NoValue)]

_finishStopping(s) ==
    DidEach([s EXCEPT !.stopWaiters = <<>>,
                      !.stopDeferreds = fireAll(@, s.stopWaiters, NoValue)],
            "stop.callback", s.stopWaiters)

\* faulty variant: the stop Deferreds are failed with the attempt's failure
_finishStopping1PassesFailure(s, f) ==
    DidEach([s EXCEPT !.stopWaiters = <<>>,
                      !.stopDeferreds = fireAll(@, s.stopWaiters, Failure(f))],
            "stop.callback", s.stopWaiters)

_finishStopping1(s, f) == _finishStopping(s)

_deferredSucceededWithNone(s) ==
    [s EXCEPT !.stopDeferreds = Append(@, succeed(NoValue))]


\* ----------------------------------------------------------------- inputs
\* An input with no transition in the current state raises automat's
\* NoTransition and leaves the machine as it is (OTHER).  start lists every
\* state; whenConnected has a transition in every state.

_connectionMade(s, protocol) ==
    CASE s.state \in {"connecting_first_time", "connecting"} ->
            _notifyWaiters(enter(s, "connected"), protocol)
      [] OTHER -> NoTransition(s)

\* faulty variant: a failed attempt is fatal in connecting as it is in
\* connecting_first_time
_connectionFailedFatal(s, f, jit) ==
    CASE s.state \in {"connecting_first_time", "connecting"} ->
            _notifyInitialConnectionFailed(enter(s, "stopped"), f)
      [] s.state = "disconnecting" ->
            _finishStopping1(_cancelConnectWaiters1(enter(s, "stopped"), f), f)
      [] OTHER -> NoTransition(s)

\* jit: what jitter() returns should the transition's output consult the policy
\* faulty variant: a failure in disconnecting does not fire the stop Deferreds
_connectionFailedStrands(s, f, jit) ==
    CASE s.state = "connecting_first_time" ->
            _notifyInitialConnectionFailed(enter(s, "stopped"), f)
      [] s.state = "connecting" ->
            _wait1(enter(s, "waiting"), f, jit)
      [] s.state = "disconnecting" ->
            _cancelConnectWaiters1(enter(s, "stopped"), f)
      [] OTHER -> NoTransition(s)

_connectionFailed(s, f, jit) ==
    CASE s.state = "connecting_first_time" ->
            _notifyInitialConnectionFailed(enter(s, "stopped"), f)
      [] s.state = "connecting" ->
            _wait1(enter(s, "waiting"), f, jit)
      [] s.state = "disconnecting" ->
            _finishStopping1(_cancelConnectWaiters1(enter(s, "stopped"), f), f)
      [] OTHER -> NoTransition(s)

\* self._connectionInProgress.cancel(): an unfired connect Deferred errbacks
\* with CancelledError at once, which runs _connectionFailed synchronously;
\* cancelling a fired Deferred does nothing
\* faulty variant: cancel() returns with the attempt's outcome still to come
_stopConnectingOutcomeLater(s) ==
    Did(s, "connectionInProgress.cancel", 0)

_stopConnecting(s) ==
    LET c == Did(s, "connectionInProgress.cancel", 0)
    IN IF s.connectionInProgress > 0
       THEN _connectionFailed(
                Did([c EXCEPT !.connectionInProgress = @ - 1], "_connectionFailed", 0),
                CancelledError, 0)
       ELSE c

\* faulty variant: start in stopped resets the failed-attempt counter
startResetsFromStopped(s) ==
    CASE s.state = "init" -> _connect(enter(s, "connecting"))
      [] s.state = "disconnecting" -> _resetFailedAttempts(enter(s, "restarting"))
      [] s.state = "stopped" -> _connect(_resetFailedAttempts(enter(s, "connecting")))
      [] OTHER -> s

\* faulty variant: start in a running state resets the failed-attempt counter
startResetsWhileRunning(s) ==
    CASE s.state \in {"init", "stopped"} -> _connect(enter(s, "connecting"))
      [] s.state = "disconnecting" -> _resetFailedAttempts(enter(s, "restarting"))
      [] OTHER -> _resetFailedAttempts(s)

start(s) ==
    CASE s.state = "init" -> _connect(enter(s, "connecting"))
      [] s.state = "connecting_first_time" -> s
      [] s.state = "connecting" -> s
      [] s.state = "waiting" -> s
      [] s.state = "connected" -> s
      [] s.state = "disconnecting" -> _resetFailedAttempts(enter(s, "restarting"))
      [] s.state = "restarting" -> s
      [] s.state = "stopped" -> _connect(enter(s, "connecting"))

\* faulty variant: a stopped machine can be started in fail-fast mode again
startAndFailTheFirstTimeAgain(s) ==
    CASE s.state \in {"init", "stopped"} -> _connect(enter(s, "connecting_first_time"))
      [] OTHER -> NoTransition(s)

startAndFailTheFirstTime(s) ==
    CASE s.state = "init" -> _connect(enter(s, "connecting_first_time"))
      [] OTHER -> NoTransition(s)

\* faulty variant: an attempt in flight is cancelled before the stop Deferred
\* is queued
stopCancelsFirst(s) ==
    CASE s.state = "init" -> _deferredSucceededWithNone(enter(s, "stopped"))
      [] s.state \in {"connecting_first_time", "connecting"} ->
            _waitForStop(_stopConnecting(enter(s, "disconnecting")))
      [] s.state = "waiting" ->
            _finishStopping(_stopRetrying(_cancelConnectWaiters(
                _waitForStop(enter(s, "stopped")))))
      [] s.state = "connected" -> _disconnect(_waitForStop(enter(s, "disconnecting")))
      [] s.state = "disconnecting" -> _waitForStop(s)
      [] s.state = "restarting" -> _waitForStop(enter(s, "disconnecting"))
      [] s.state = "stopped" -> _deferredSucceededWithNone(s)

stop(s) ==
    CASE s.state = "init" -> _deferredSucceededWithNone(enter(s, "stopped"))
      [] s.state \in {"connecting_first_time", "connecting"} ->
            _stopConnecting(_waitForStop(enter(s, "disconnecting")))
      [] s.state = "waiting" ->
            _finishStopping(_stopRetrying(_cancelConnectWaiters(
                _waitForStop(enter(s, "stopped")))))
      [] s.state = "connected" -> _disconnect(_waitForStop(enter(s, "disconnecting")))
      [] s.state = "disconnecting" -> _waitForStop(s)
      [] s.state = "restarting" -> _waitForStop(enter(s, "disconnecting"))
      [] s.state = "stopped" -> _deferredSucceededWithNone(s)

\* faulty variant: the retry call enters connecting without an attempt
_reconnectWithoutConnect(s) ==
    CASE s.state = "waiting" -> enter(s, "connecting")
      [] OTHER -> NoTransition(s)

\* faulty variant: the retry call starts two connection attempts
_reconnectConnectsTwice(s) ==
    CASE s.state = "waiting" -> _connect(_connect(enter(s, "connecting")))
      [] OTHER -> NoTransition(s)

_reconnect(s) ==
    CASE s.state = "waiting" -> _connect(enter(s, "connecting"))
      [] OTHER -> NoTransition(s)

\* faulty variant: a restart connects before it fires the stop waiters
_clientDisconnectedConnectsFirst(s, jit) ==
    CASE s.state = "connected" ->
            _wait(_forgetConnection(enter(s, "waiting")), jit)
      [] s.state = "disconnecting" ->
            _forgetConnection(_finishStopping(_cancelConnectWaiters(enter(s, "stopped"))))
      [] s.state = "restarting" ->
            _finishStopping(_connect(enter(s, "connecting")))
      [] OTHER -> NoTransition(s)

_clientDisconnected(s, jit) ==
    CASE s.state = "connected" ->
            _wait(_forgetConnection(enter(s, "waiting")), jit)
      [] s.state = "disconnecting" ->
            _forgetConnection(_finishStopping(_cancelConnectWaiters(enter(s, "stopped"))))
      [] s.state = "restarting" ->
            _connect(_finishStopping(enter(s, "connecting")))
      [] OTHER -> NoTransition(s)

\* _ReconnectingProtocolProxy.connectionLost of the proxy around protocol c:
\* the wrapped protocol's connectionLost is called in the try block, and the
\* lostNotification (lambda _: self._clientDisconnected(), bound in _connect)
\* in the finally block, whether or not the wrapped call raised
\* faulty variant: the lostNotification runs before the wrapped protocol is told
connectionLostNotifiesFirst(s, c, jit) ==
    LET notified == _clientDisconnected(Did(s, "lostNotification", c), jit)
    IN Did(notified, "protocol.connectionLost", c)

connectionLost(s, c, jit) ==
    LET relayed == Did(s, "protocol.connectionLost", c)
    IN _clientDisconnected(Did(relayed, "lostNotification", c), jit)

\* ---------------------------------------------------------------- actions
\* A run may script the endpoint: it fails the first failFirst connect
\* attempts and lets the next one succeed.  While the script lasts the fake
\* endpoint counts the connect calls and the fake clock keeps the delayed
\* calls it was given.  The script ends (Unscripted: any attempt may fail or
\* succeed, nothing is counted) once the owner stops the machine, starts it
\* in fail-fast mode, or a connection is lost.
Unscripted == [failFirst |-> -1, failures |-> 0, connects |-> 0, timers |-> <<>>]
Scripted(k) == [failFirst |-> k, failures |-> 0, connects |-> 0, timers |-> <<>>]

\* the script after the delivery that leaves the machine as after
Observe(after) ==
    IF scenario.failFirst < 0 THEN scenario
    ELSE LET made == Len(Only(after.effects, "callLater"))
             n == Len(after.delayedCalls)
         IN [scenario EXCEPT
                !.connects = @ + Len(Only(after.effects, "endpoint.connect")),
                !.timers = @ \o SubSeq(after.delayedCalls, n - made + 1, n)]

\* the machine after the input: every attribute takes its value in after
Install(after) ==
    \E s \in {after} :
        /\ state' = s.state
        /\ failedAttempts' = s.failedAttempts
        /\ connectionInProgress' = s.connectionInProgress
        /\ currentConnection' = s.currentConnection
        /\ awaitingConnected' = s.awaitingConnected
        /\ stopWaiters' = s.stopWaiters
        /\ delayedCalls' = s.delayedCalls
        /\ openConnections' = s.openConnections
        /\ closing' = s.closing
        /\ protocols' = s.protocols
        /\ whenConnectedDeferreds' = s.whenConnectedDeferreds
        /\ stopDeferreds' = s.stopDeferreds
        /\ reentrant' = s.reentrant
        /\ timeoutForAttempt' = s.timeoutForAttempt

\* the machine after the owner calls start()
AfterStart == start(Delivered(Cur, "start", 0))

Start ==
    /\ Install(AfterStart)
    /\ stopsSinceStart' = 0
    /\ scenario' = Observe(AfterStart)
    /\ UNCHANGED policyResult

\* the owner calls startAndFailTheFirstTime(): on a fresh machine it starts
\* the first attempt, on any other the call raises and the machine stays as
\* it is
AfterStartAndFailTheFirstTime ==
    startAndFailTheFirstTime(Delivered(Cur, "startAndFailTheFirstTime", 0))

StartAndFailTheFirstTime ==
    /\ Install(AfterStartAndFailTheFirstTime)
    /\ stopsSinceStart' = IF state = "init" THEN 0 ELSE stopsSinceStart
    /\ scenario' = IF state = "init" THEN Unscripted ELSE scenario
    /\ UNCHANGED policyResult

\* the owner calls stop()
AfterStop == stop(Delivered(Cur, "stop", 0))

Stop ==
    /\ Len(stopDeferreds) < MaxStops
    /\ Install(AfterStop)
    /\ stopsSinceStart' = Min(stopsSinceStart + 1, 2)
    /\ scenario' = Unscripted
    /\ UNCHANGED policyResult

\* a consumer calls whenConnected()
AfterWhenConnected == whenConnected(Delivered(Cur, "whenConnected", 0))

WhenConnected ==
    /\ Len(whenConnectedDeferreds) < MaxWaiters
    /\ Install(AfterWhenConnected)
    /\ UNCHANGED <<stopsSinceStart, scenario, policyResult>>

\* a consumer calls whenConnected() on a machine that has neither a
\* connection nor stopped, and adds to the pending Deferred it is given a
\* callback that calls whenConnected() again
AfterWhenConnectedWithCallback ==
    LET s == whenConnected(Delivered(Cur, "whenConnected", 1))
    IN [s EXCEPT !.reentrant = @ \cup {Len(s.whenConnectedDeferreds)}]

WhenConnectedWithCallback ==
    /\ Len(whenConnectedDeferreds) < MaxWaiters
    /\ state \notin {"connected", "stopped"}
    /\ Install(AfterWhenConnectedWithCallback)
    /\ UNCHANGED <<stopsSinceStart, scenario, policyResult>>

\* the endpoint's connect Deferred fires with a protocol built by
\* _DisconnectFactory: the callback added in _connect runs _connectionMade
AfterConnectSucceeds ==
    LET p == protocols + 1
        s == [Delivered(Cur, "_connectionMade", p) EXCEPT
                 !.connectionInProgress = @ - 1,
                 !.protocols = p,
                 !.openConnections = @ \cup {p}]
    IN _connectionMade(s, p)

ConnectSucceeds ==
    /\ connectionInProgress > 0
    /\ protocols < MaxConns
    /\ scenario.failFirst >= 0 => scenario.failures = scenario.failFirst
    /\ Install(AfterConnectSucceeds)
    /\ scenario' = Observe(AfterConnectSucceeds)
    /\ UNCHANGED <<stopsSinceStart, policyResult>>

\* the endpoint's connect Deferred fails: the errback runs _connectionFailed
AfterConnectFails(f, jit) ==
    _connectionFailed(
        [Delivered(Cur, "_connectionFailed", 0) EXCEPT !.connectionInProgress = @ - 1],
        f, jit)

ConnectFailsWith(f) ==
    /\ connectionInProgress > 0
    /\ state = "connecting" => failedAttempts < MaxAttempts
    /\ scenario.failFirst >= 0 => scenario.failures < scenario.failFirst
    /\ \E jit \in MachineJitters :
          /\ Install(AfterConnectFails(f, jit))
          /\ scenario' = [Observe(AfterConnectFails(f, jit)) EXCEPT
                             !.failures = IF scenario.failFirst < 0 THEN @ ELSE @ + 1]
    /\ UNCHANGED <<stopsSinceStart, policyResult>>

ConnectFails ==
    \E f \in Reasons : ConnectFailsWith(f)

\* the clock runs the pending delayed call i: self._reconnect
AfterRetryTimerFires(i) ==
    LET rest == [j \in 1..(Len(delayedCalls) - 1) |->
                    IF j < i THEN delayedCalls[j] ELSE delayedCalls[j + 1]]
    IN _reconnect([Delivered(Cur, "_reconnect", 0) EXCEPT !.delayedCalls = rest])

RetryTimerFires ==
    /\ \E i \in DOMAIN delayedCalls :
          /\ Install(AfterRetryTimerFires(i))
          /\ scenario' = Observe(AfterRetryTimerFires(i))
    /\ UNCHANGED <<stopsSinceStart, policyResult>>

\* the transport of protocol c reports connectionLost to the proxy
AfterConnectionLost(c, jit) ==
    connectionLost(
        [Delivered(Cur, "connectionLost", c) EXCEPT
            !.openConnections = @ \ {c}, !.closing = @ \ {c}], c, jit)

ConnectionLost(c) ==
    /\ c \in openConnections
    /\ \E jit \in MachineJitters : Install(AfterConnectionLost(c, jit))
    /\ scenario' = Unscripted
    /\ UNCHANGED <<stopsSinceStart, policyResult>>

\* a live connection drops
ConnectionDrops ==
    \E c \in openConnections \ closing : ConnectionLost(c)

\* a connection told loseConnection() finishes closing
CloseCompletes ==
    \E c \in closing : ConnectionLost(c)

\* the machine as ClientService.__init__ builds it with retryPolicy
Constructed(retryPolicy) ==
    LET s == InitMachine(retryPolicy)
    IN /\ state = s.state
       /\ failedAttempts = s.failedAttempts
       /\ connectionInProgress = s.connectionInProgress
       /\ currentConnection = s.currentConnection
       /\ awaitingConnected = s.awaitingConnected
       /\ stopWaiters = s.stopWaiters
       /\ delayedCalls = s.delayedCalls
       /\ openConnections = s.openConnections
       /\ closing = s.closing
       /\ protocols = s.protocols
       /\ whenConnectedDeferreds = s.whenConnectedDeferreds
       /\ stopDeferreds = s.stopDeferreds
       /\ reentrant = s.reentrant
       /\ timeoutForAttempt = s.timeoutForAttempt

Init ==
    /\ Constructed(_defaultPolicy)
    /\ stopsSinceStart = 0
    /\ scenario = Unscripted
    /\ policyResult = [attempt |-> 0, jitter |-> 0, delay |-> [num |-> 0, den |-> 1]]

Next ==
    \/ Start
    \/ StartAndFailTheFirstTime
    \/ Stop
    \/ WhenConnected
    \/ ConnectSucceeds
    \/ ConnectFails
    \/ RetryTimerFires
    \/ ConnectionDrops
    \/ CloseCompletes

Spec == Init /\ [][Next]_vars

\* a connection being closed does report connectionLost
FairSpec == Spec /\ WF_vars(CloseCompletes)

\* the clock does run a pending retry call, the endpoint does let an attempt
\* succeed if attempts keep being made, and a connection being closed does
\* report connectionLost
LiveSpec ==
    /\ Spec
    /\ WF_vars(RetryTimerFires)
    /\ SF_vars(ConnectSucceeds)
    /\ WF_vars(CloseCompletes)

\* ------------------------------- a transport that reports a loss once more
\* connectionLost is called again on the proxy of a connection already
\* reported lost: the proxy keeps no record of the first call
ConnectionLostAgain(c) ==
    /\ c \in 1..protocols
    /\ c \notin openConnections
    /\ \E jit \in MachineJitters : Install(AfterConnectionLost(c, jit))
    /\ scenario' = Unscripted
    /\ UNCHANGED <<stopsSinceStart, policyResult>>

ProxyNext ==
    \/ Next
    \/ \E c \in 1..MaxConns : ConnectionLostAgain(c)

ProxySpec == Init /\ [][ProxyNext]_vars

\* ------------------------------ consumers that wait again from a callback
ReentrantNext ==
    \/ Next
    \/ WhenConnectedWithCallback

ReentrantSpec == Init /\ [][ReentrantNext]_vars

\* ------------------------------------------- owners that use start() only
\* the runs in which startAndFailTheFirstTime is never called
StartOnlyNext ==
    \/ Start
    \/ Stop
    \/ WhenConnected
    \/ ConnectSucceeds
    \/ ConnectFails
    \/ RetryTimerFires
    \/ ConnectionDrops
    \/ CloseCompletes

StartOnlySpec == Init /\ [][StartOnlyNext]_vars

\* --------------------------- owners that start the machine in fail-fast mode
\* the runs in which a fresh machine is started with startAndFailTheFirstTime
FailFastNext ==
    \/ (state # "init" /\ Start)
    \/ StartAndFailTheFirstTime
    \/ (state # "init" /\ Stop)
    \/ WhenConnected
    \/ ConnectSucceeds
    \/ ConnectFails
    \/ RetryTimerFires
    \/ ConnectionDrops
    \/ CloseCompletes

FailFastSpec == Init /\ [][FailFastNext]_vars

\* --------------------------------------------------- the scripted endpoint
\* a fresh machine, built with the default policy or with one whose delay
\* does not grow (factor 1, maxDelay = initialDelay), facing an endpoint that
\* fails the first k attempts
FixedDelayPolicy == backoffPolicy(MaxInitialDelay, MaxInitialDelay, 1, 1)

ScenarioInit ==
    /\ \E p \in {_defaultPolicy, FixedDelayPolicy} : Constructed(p)
    /\ stopsSinceStart = 0
    /\ \E k \in 0..MaxAttempts : scenario = Scripted(k)
    /\ policyResult = [attempt |-> 0, jitter |-> 0, delay |-> [num |-> 0, den |-> 1]]

ScenarioSpec == ScenarioInit /\ [][Next]_vars

\* -------------------------------------------- the retry policy on its own
\* the policies a ClientService may be built with: the default one, and
\* backoffPolicy over small parameters (factor 3/2 or 2)
Factors == {[num |-> DefaultFactorNum, den |-> DefaultFactorDen], [num |-> 2, den |-> 1]}
Policies ==
    {_defaultPolicy} \cup
    {backoffPolicy(i, m, f.num, f.den) :
        i \in 1..MaxInitialDelay, m \in 1..MaxMaxDelay, f \in Factors}

\* policy(attempt) is called with an attempt count and a draw of jitter()
PolicyCall ==
    /\ \E n \in 1..MaxAttemptArg, jit \in Jitters :
          policyResult' = [attempt |-> n, jitter |-> jit,
                           delay |-> policy(timeoutForAttempt, n, jit)]
    /\ UNCHANGED <<state, failedAttempts, connectionInProgress, currentConnection,
                   awaitingConnected, stopWaiters, delayedCalls, openConnections,
                   closing, protocols, whenConnectedDeferreds, stopDeferreds,
                   stopsSinceStart, reentrant, scenario, timeoutForAttempt>>

PolicyInit ==
    /\ \E p \in Policies : Constructed(p)
    /\ stopsSinceStart = 0
    /\ scenario = Unscripted
    /\ policyResult = [attempt |-> 0, jitter |-> 0, delay |-> [num |-> 0, den |-> 1]]

PolicyNext == PolicyCall

PolicySpec == PolicyInit /\ [][PolicyNext]_vars

\* ------------------------------------------------------------ properties
Range(q) == {q[i] : i \in DOMAIN q}

\* a/b = c/d for fractions with positive denominators
SameFraction(a, b, c, d) == a * d = c * b


\* a step in which stop / whenConnected returned a new Deferred
StopCalled == Len(stopDeferreds') = Len(stopDeferreds) + 1
WhenConnectedCalled == Len(whenConnectedDeferreds') = Len(whenConnectedDeferreds) + 1
\* fail(CancelledError()), and the protocols whose connection is up
Cancelled == [result |-> Failure(CancelledError), fired |-> 1]
Live == openConnections \ closing

\* C1: every stop call, in whichever state it is made, gets a completion
\* Deferred that fires exactly once: it never fires twice, and (a connection
\* being closed does report closed) it eventually fires.
C1_StopFiresExactlyOnce ==
    /\ [](\A i \in DOMAIN stopDeferreds : stopDeferreds[i].fired <= 1)
    /\ \A i \in 1..MaxStops :
          [](Len(stopDeferreds) >= i =>
                <>(Len(stopDeferreds) >= i /\ stopDeferreds[i].fired = 1))

\* a stop made while connected was turned into a restart, and its Deferred
\* fired when the closing connection reported closed
C1_Witness ==
    /\ state = "connecting"
    /\ currentConnection # 0
    /\ \E i \in DOMAIN stopDeferreds : stopDeferreds[i].fired = 1

\* C2: at every moment a stop completion Deferred fires, no whenConnected
\* waiter is left pending: the list is empty and every Deferred handed out
\* before has a connection or CancelledError.
C2_NoWaiterSurvivesStop ==
    [][(\E i \in DOMAIN stopDeferreds' :
            /\ stopDeferreds'[i].fired = 1
            /\ (i \in DOMAIN stopDeferreds => stopDeferreds[i].fired = 0))
        => /\ awaitingConnected' = <<>>
           /\ \A w \in DOMAIN whenConnectedDeferreds :
                 \/ whenConnectedDeferreds'[w].result.kind = "connection"
                 \/ whenConnectedDeferreds'[w] = Cancelled]_vars

\* C3: whenConnected never changes the state, and what it returns depends
\* on the state only: connected, a Deferred already fired with the live
\* current connection; stopped, one already failed with CancelledError;
\* any other state, a new unfired Deferred appended to the waiters.
C3_WhenConnectedByState ==
    [][WhenConnectedCalled =>
        LET n == Len(whenConnectedDeferreds')
            new == whenConnectedDeferreds'[n]
        IN /\ state' = state
           /\ SubSeq(whenConnectedDeferreds', 1, n - 1) = whenConnectedDeferreds
           /\ state = "connected" =>
                 /\ new = succeed(Connection(currentConnection))
                 /\ currentConnection \in Live
                 /\ awaitingConnected' = awaitingConnected
           /\ state = "stopped" =>
                 /\ new = Cancelled
                 /\ awaitingConnected' = awaitingConnected
           /\ state \notin {"connected", "stopped"} =>
                 /\ new = Deferred
                 /\ awaitingConnected' = Append(awaitingConnected, n)]_vars

\* one caller was given a connection, a later one is queued while the
\* machine shuts that connection down
C3_Witness ==
    /\ state = "disconnecting"
    /\ Len(whenConnectedDeferreds) >= 2
    /\ whenConnectedDeferreds[1].result.kind = "connection"
    /\ whenConnectedDeferreds[2] = Deferred
    /\ awaitingConnected = <<2>>

\* C4: at most one connect attempt in flight and at most one retry call
\* pending; never an attempt in flight together with a connection still
\* open; a retry call is pending only in the waiting state.
C4_SingleAttemptSingleTimer ==
    /\ connectionInProgress <= 1
    /\ Len(delayedCalls) <= 1
    /\ connectionInProgress + Cardinality(openConnections) <= 1
    /\ delayedCalls # <<>> => state = "waiting"

\* a re-attempt is in flight after a connection was lost
C4_Witness ==
    /\ state = "connecting"
    /\ connectionInProgress = 1
    /\ protocols >= 1
    /\ failedAttempts >= 1

\* C5 as stated: a current connection is held exactly in the connected state.
C5_ConnectionIffConnected ==
    (currentConnection # 0) <=> (state = "connected")

\* C5 amended: connected holds the live connection; init and
\* connecting_first_time hold none; disconnecting and restarting still hold
\* the connection being closed; connectionLost forgets it in connected and
\* disconnecting but not in restarting, so a connection held in connecting,
\* waiting or stopped is the closed one left over from a restart.
C5_ConnectionHeld ==
    /\ [](/\ state = "connected" => currentConnection \in Live
          /\ state \in {"init", "connecting_first_time"} => currentConnection = 0
          /\ state \in {"disconnecting", "restarting"} => currentConnection \in closing
          /\ (state \in {"connecting", "waiting", "stopped"} /\ currentConnection # 0) =>
                /\ currentConnection \notin openConnections
                /\ \E i \in DOMAIN stopDeferreds : stopDeferreds[i].fired = 1)
    /\ [][/\ (state = "connected" /\ state' = "waiting") => currentConnection' = 0
          /\ (state = "disconnecting" /\ state' = "stopped") => currentConnection' = 0
          /\ (state = "restarting" /\ state' = "connecting") =>
                currentConnection' = currentConnection]_vars

\* the connection is still held while it is being closed
C5_Witness ==
    /\ state = "disconnecting"
    /\ currentConnection \in closing
    /\ stopWaiters # <<>>

\* C6: a successful connect resets the failed-attempt counter to 0; no
\* other step lowers it.
C6_CounterResetOnlyOnSuccess ==
    [][/\ ConnectSucceeds => failedAttempts' = 0
       /\ protocols' = protocols => failedAttempts' >= failedAttempts]_vars

\* start during a shutdown ran _resetFailedAttempts
C6_Witness ==
    /\ state = "restarting"
    /\ failedAttempts = 0
    /\ stopWaiters # <<>>

\* C7 as stated: for attempt n >= 1 the policy returns
\* min(initialDelay * factor^(n-1), maxDelay) + jitter; with n = 1 and no
\* jitter that is initialDelay; without the jitter it never exceeds maxDelay.
C7_DelayFormula ==
    policyResult.attempt >= 1 =>
        LET p == timeoutForAttempt
            n == policyResult.attempt
            d == Pow(p.fden, n - 1)
            capped == Min(p.initialDelay * Pow(p.fnum, n - 1), p.maxDelay * d)
            r == policyResult.delay
        IN /\ SameFraction(r.num, r.den,
                           capped * JitterDen + policyResult.jitter * d, d * JitterDen)
           /\ (n = 1 /\ policyResult.jitter = 0) =>
                 SameFraction(r.num, r.den, p.initialDelay, 1)
           /\ r.num * JitterDen - policyResult.jitter * r.den <= p.maxDelay * r.den * JitterDen

\* C8: in connecting_first_time a failed connect attempt moves the machine
\* to stopped, schedules no retry, leaves the counter alone and fires every
\* pending whenConnected Deferred with that failure.
C8_FailFastTerminal ==
    [][\A f \in Reasons :
          (state = "connecting_first_time" /\ ConnectFailsWith(f)) =>
             /\ state' = "stopped"
             /\ delayedCalls' = <<>>
             /\ connectionInProgress' = 0
             /\ failedAttempts' = failedAttempts
             /\ awaitingConnected' = <<>>
             /\ \A w \in Range(awaitingConnected) :
                   whenConnectedDeferreds'[w] = fail(Failure(f))]_vars

\* a waiter was given the endpoint's own failure
C8_Witness ==
    /\ state = "stopped"
    /\ delayedCalls = <<>>
    /\ \E w \in DOMAIN whenConnectedDeferreds :
          /\ whenConnectedDeferreds[w].result.kind = "failure"
          /\ whenConnectedDeferreds[w].result.reason \in Reasons

\* C9: in connected, a connection lost without stop moves the machine to
\* waiting, forgets the connection, takes the counter from 0 to 1 and
\* schedules exactly one retry call with delay policy(1); a retry call firing
\* in waiting moves it to connecting and issues exactly one connect attempt.
C9_ReconnectOnDrop ==
    [][/\ (state = "connected" /\ ConnectionDrops) =>
             /\ state' = "waiting"
             /\ currentConnection' = 0
             /\ failedAttempts = 0 /\ failedAttempts' = 1
             /\ delayedCalls = <<>> /\ Len(delayedCalls') = 1
             /\ \E jit \in Jitters :
                   delayedCalls'[1].delay = policy(timeoutForAttempt, 1, jit)
             /\ connectionInProgress' = 0
       /\ (state = "waiting" /\ RetryTimerFires) =>
             /\ state' = "connecting"
             /\ delayedCalls' = <<>>
             /\ connectionInProgress = 0 /\ connectionInProgress' = 1]_vars

\* the reconnect after a lost connection is in flight
C9_Witness ==
    /\ state = "connecting"
    /\ protocols >= 1
    /\ currentConnection = 0
    /\ openConnections = {}
    /\ failedAttempts = 1
    /\ connectionInProgress = 1

\* C10: two stop calls with no start between them give two distinct
\* Deferreds and leave the machine stopped, or disconnecting with both
\* queued until the one transition to stopped fires all queued Deferreds
\* together; a closing connection does get there; stop in stopped returns a
\* fired Deferred and changes nothing else.
C10_StopTwice ==
    /\ [](stopsSinceStart = 2 =>
            LET n == Len(stopDeferreds)
            IN /\ n >= 2
               /\ state \in {"stopped", "disconnecting"}
               /\ state = "stopped" =>
                     /\ stopDeferreds[n - 1].fired = 1
                     /\ stopDeferreds[n].fired = 1
                     /\ stopWaiters = <<>>
               /\ state = "disconnecting" =>
                     /\ {n - 1, n} \subseteq Range(stopWaiters)
                     /\ stopDeferreds[n - 1].fired = 0
                     /\ stopDeferreds[n].fired = 0)
    /\ (stopsSinceStart = 2) ~> (state = "stopped" \/ stopsSinceStart = 0)
    /\ [][/\ (state = "disconnecting" /\ state' = "stopped") =>
                /\ stopWaiters' = <<>>
                /\ \A w \in Range(stopWaiters) :
                      stopDeferreds[w].fired = 0 /\ stopDeferreds'[w].fired = 1
          /\ (state = "stopped" /\ StopCalled) =>
                /\ state' = "stopped"
                /\ stopDeferreds' = Append(stopDeferreds, succeed(NoValue))
                /\ stopWaiters' = stopWaiters]_vars

\* two stop calls are queued behind one closing connection
C10_Witness ==
    /\ state = "disconnecting"
    /\ stopsSinceStart = 2
    /\ Len(stopWaiters) = 2

\* C11: the waiters list holds unfired Deferreds in the order they were
\* registered; a successful connect fires every one of them, first
\* registered first, with the protocol it makes the current connection, and
\* empties the list; whenConnected called after that, while connected, returns
\* a Deferred already fired with that same protocol.
C11_WaitersResolvedInOrder ==
    /\ [](/\ \A i, j \in DOMAIN awaitingConnected :
                i < j => awaitingConnected[i] < awaitingConnected[j]
          /\ \A w \in Range(awaitingConnected) : whenConnectedDeferreds[w] = Deferred
          /\ state = "connected" => currentConnection = protocols)
    /\ [][ConnectSucceeds =>
            LET p == protocols'
            IN /\ state' = "connected"
               /\ currentConnection' = p
               /\ awaitingConnected' = <<>>
               /\ \A w \in Range(awaitingConnected) :
                     whenConnectedDeferreds'[w] = succeed(Connection(p))
               /\ Args(Only(AfterConnectSucceeds.effects, "whenConnected.callback"))
                     = awaitingConnected]_vars
    /\ [][(state = "connected" /\ WhenConnectedCalled) =>
            whenConnectedDeferreds'[Len(whenConnectedDeferreds')]
                = succeed(Connection(protocols))]_vars

\* two callers queued before the connection were both given it
C11_Witness ==
    /\ state = "connected"
    /\ currentConnection = 1
    /\ Len(whenConnectedDeferreds) >= 2
    /\ whenConnectedDeferreds[1] = succeed(Connection(1))
    /\ whenConnectedDeferreds[2] = succeed(Connection(1))
    /\ failedAttempts = 0

\* C12: facing an endpoint that fails the first k connect attempts and lets
\* the next succeed, a machine started with start() from init has, once
\* connected, scheduled exactly k retry calls, the i-th with delay policy(i)
\* (the same delay each time under a policy that does not grow), asked the
\* endpoint to connect exactly k + 1 times, a failed-attempt counter of 0,
\* and has fired every whenConnected Deferred registered on the way, the ones
\* registered before start() included, with the connection obtained.
C12_FailThenSucceed ==
    scenario.failFirst >= 0 =>
        LET k == scenario.failFirst
            t == scenario.timers
        IN /\ Len(t) = scenario.failures
           /\ \A i \in DOMAIN t :
                 /\ t[i].attempt = i
                 /\ t[i].delay = policy(timeoutForAttempt, i, t[i].jitter)
                 /\ timeoutForAttempt = FixedDelayPolicy =>
                       SameFraction(t[i].delay.num - t[i].jitter, t[i].delay.den,
                                    MaxInitialDelay, 1)
           /\ state = "connected" =>
                 /\ scenario.failures = k
                 /\ scenario.connects = k + 1
                 /\ failedAttempts = 0
                 /\ currentConnection = 1
                 /\ awaitingConnected = <<>>
                 /\ \A w \in DOMAIN whenConnectedDeferreds :
                       whenConnectedDeferreds[w] = succeed(Connection(1))

\* the endpoint failed as often as the counter may grow, the next attempt
\* connected, and a waiter was served
C12_Witness ==
    /\ scenario.failFirst = MaxAttempts
    /\ state = "connected"
    /\ Len(scenario.timers) = MaxAttempts
    /\ whenConnectedDeferreds # <<>>

\* C13: stop called in waiting cancels the pending retry call, fails every
\* pending whenConnected Deferred with CancelledError, returns a Deferred
\* that has fired by the time the call returns, and leaves the machine
\* stopped; in stopped no retry call is pending and no attempt is in flight,
\* and only start takes the machine out of stopped.
C13_StopWhileWaiting ==
    /\ [][(state = "waiting" /\ Stop) =>
            LET n == Len(stopDeferreds')
            IN /\ state' = "stopped"
               /\ Len(delayedCalls) = 1 /\ delayedCalls' = <<>>
               /\ connectionInProgress' = 0
               /\ awaitingConnected' = <<>>
               /\ \A w \in Range(awaitingConnected) : whenConnectedDeferreds'[w] = Cancelled
               /\ n = Len(stopDeferreds) + 1
               /\ stopDeferreds'[n] = [result |-> NoValue, fired |-> 1]
               /\ stopWaiters' = <<>>
               /\ Len(Only(AfterStop.effects, "retryCall.cancel")) = 1
               /\ Only(AfterStop.effects, "endpoint.connect") = <<>>]_vars
    /\ [](state = "stopped" => (delayedCalls = <<>> /\ connectionInProgress = 0))
    /\ [][(state = "stopped" /\ (state' # "stopped" \/ connectionInProgress' # 0)) =>
            (Start /\ state' = "connecting")]_vars

\* stopped after failed attempts, a waiter cancelled, the stop Deferred fired
C13_Witness ==
    /\ state = "stopped"
    /\ failedAttempts >= 1
    /\ protocols = 0
    /\ delayedCalls = <<>>
    /\ \E w \in DOMAIN whenConnectedDeferreds : whenConnectedDeferreds[w] = Cancelled
    /\ stopDeferreds # <<>>
    /\ \A i \in DOMAIN stopDeferreds : stopDeferreds[i].fired = 1

Running == {"connecting_first_time", "connecting", "waiting", "connected", "restarting"}

\* C14: start called in connecting_first_time, connecting, waiting, connected
\* or restarting changes nothing: the machine it leaves is the machine it
\* found (state, counter, attempt in flight, retry call, current connection,
\* both waiter lists, every Deferred handed out), and its outputs call
\* nothing, in particular not endpoint.connect.
C14_StartWhileRunning ==
    state \in Running =>
        /\ AfterStart = Delivered(Cur, "start", 0)
        /\ AfterStart.effects = <<Effect("start", 0)>>

\* a machine waiting to retry, with a retry call, a counter and a waiter to keep
C14_Witness ==
    /\ state = "waiting"
    /\ Len(delayedCalls) = 1
    /\ failedAttempts = MaxAttempts
    /\ awaitingConnected # <<>>
    /\ ENABLED Start

\* C15: start in stopped enters connecting and asks the endpoint to connect
\* exactly once; start in disconnecting enters restarting, asks for no
\* connection and keeps the stop waiters queued; when the closing connection
\* then reports connectionLost the machine goes from restarting straight to
\* connecting, and in that one delivery first fires every queued stop
\* Deferred and then asks the endpoint to connect exactly once.
C15_StartAfterOrDuringStop ==
    [][/\ (state = "stopped" /\ Start) =>
             /\ state' = "connecting"
             /\ connectionInProgress = 0 /\ connectionInProgress' = 1
             /\ AfterStart.effects = <<Effect("start", 0), Effect("endpoint.connect", 0)>>
       /\ (state = "disconnecting" /\ Start) =>
             /\ state' = "restarting"
             /\ connectionInProgress' = 0
             /\ stopWaiters # <<>> /\ stopWaiters' = stopWaiters
             /\ closing # {} /\ closing' = closing
             /\ AfterStart.effects = <<Effect("start", 0)>>
       /\ \A c \in closing :
             (state = "restarting" /\ ConnectionLost(c)) =>
                /\ state' = "connecting"
                /\ stopWaiters # <<>> /\ stopWaiters' = <<>>
                /\ \A w \in Range(stopWaiters) :
                      stopDeferreds[w].fired = 0 /\ stopDeferreds'[w].fired = 1
                /\ connectionInProgress = 0 /\ connectionInProgress' = 1
                /\ AfterConnectionLost(c, 0).effects =
                      <<Effect("connectionLost", c), Effect("protocol.connectionLost", c),
                        Effect("lostNotification", c)>>
                      \o [i \in 1..Len(stopWaiters) |-> Effect("stop.callback", stopWaiters[i])]
                      \o <<Effect("endpoint.connect", 0)>>]_vars

\* the attempt issued by a restart is in flight: the stop Deferreds have all
\* fired and the connection closed by the stop is still the recorded one
C15_Witness ==
    /\ state = "connecting"
    /\ connectionInProgress = 1
    /\ currentConnection # 0
    /\ currentConnection \notin openConnections
    /\ stopWaiters = <<>>
    /\ stopsSinceStart = 0
    /\ Len(stopDeferreds) >= 2
    /\ \A i \in DOMAIN stopDeferreds : stopDeferreds[i].fired = 1

\* C16: when the owner only ever uses start(), a failed connect attempt or a
\* lost connection is never fatal and never shown to a consumer: a failed
\* attempt or a dropped connection leads to waiting and touches no
\* whenConnected Deferred; the machine enters stopped only in a stop call or
\* when the connection a stop call is closing reports connectionLost; every
\* whenConnected Deferred is unfired, holds a connection, or holds
\* CancelledError.
C16_FailuresNeverSurface ==
    /\ [](/\ state # "connecting_first_time"
          /\ state = "stopped" => stopDeferreds # <<>>
          /\ \A w \in DOMAIN whenConnectedDeferreds :
                \/ whenConnectedDeferreds[w] = Deferred
                \/ whenConnectedDeferreds[w].result.kind = "connection"
                \/ whenConnectedDeferreds[w] = Cancelled)
    /\ [][/\ (ConnectFails \/ ConnectionDrops) =>
                /\ state' = "waiting"
                /\ Len(delayedCalls') = 1
                /\ whenConnectedDeferreds' = whenConnectedDeferreds
                /\ awaitingConnected' = awaitingConnected
          /\ (state # "stopped" /\ state' = "stopped") =>
                \/ Stop
                \/ (state = "disconnecting" /\ stopWaiters # <<>> /\ CloseCompletes)]_vars

\* a connection was lost and a later attempt failed: the machine waits to
\* retry and the waiter is still pending
C16_Witness ==
    /\ state = "waiting"
    /\ protocols >= 1
    /\ failedAttempts >= 2
    /\ awaitingConnected # <<>>
    /\ stopDeferreds = <<>>

\* a started machine that is not connected and not being stopped, facing an
\* endpoint that can still produce a connection
Retrying ==
    /\ state \in {"connecting", "waiting", "restarting"}
    /\ protocols < MaxConns

\* C17: once start has been called, if the retry calls do run and the
\* endpoint does let an attempt succeed, then however many attempts fail the
\* machine reaches connected, and every whenConnected Deferred pending on the
\* way is fired with a connection, unless stop is called first (which is the
\* only way from these states into disconnecting or stopped).
C17_EventuallyConnected ==
    /\ Retrying ~> (state \in {"connected", "disconnecting", "stopped"})
    /\ \A w \in 1..MaxWaiters :
          (Retrying /\ w \in Range(awaitingConnected))
             ~> \/ /\ w \in DOMAIN whenConnectedDeferreds
                   /\ whenConnectedDeferreds[w].result.kind = "connection"
                \/ state \in {"disconnecting", "stopped"}
    /\ [][(state \in {"connecting", "waiting", "connected", "restarting"}
              /\ state' \in {"disconnecting", "stopped"}) => Stop]_vars

\* never stopped: a waiter queued after the first connection was lost has
\* been given the second one
C17_Witness ==
    /\ state = "connected"
    /\ currentConnection = 2
    /\ stopDeferreds = <<>>
    /\ failedAttempts = 0
    /\ \E w \in DOMAIN whenConnectedDeferreds :
          whenConnectedDeferreds[w] = succeed(Connection(2))
    /\ \E w \in DOMAIN whenConnectedDeferreds :
          whenConnectedDeferreds[w] = succeed(Connection(1))

\* the delivery raised no NoTransition
Handled(after) == Only(after.effects, "NoTransition") = <<>>

\* C18: in every reachable state each event a collaborator can deliver has a
\* transition: the outcome of a connect attempt, success or failure, while
\* one is outstanding; connectionLost of every open connection, live or
\* closing; _reconnect of every pending retry call.  The outcome of an
\* attempt that stop cancels is delivered inside the stop call, in
\* disconnecting, where it has a transition; no attempt is ever outstanding
\* once stop has returned, in disconnecting or in restarting.
C18_DeliverableEventsHandled ==
    /\ connectionInProgress > 0 =>
          /\ Handled(AfterConnectSucceeds)
          /\ \A f \in Reasons \cup {CancelledError} : Handled(AfterConnectFails(f, 0))
    /\ \A c \in openConnections : Handled(AfterConnectionLost(c, 0))
    /\ \A i \in DOMAIN delayedCalls : Handled(AfterRetryTimerFires(i))
    /\ Handled(AfterStop)
    /\ state \in {"disconnecting", "restarting"} =>
          /\ connectionInProgress = 0
          /\ currentConnection \in closing

\* stop is about to cancel an attempt in flight: the cancelled attempt's
\* failure is delivered in disconnecting and takes the machine to stopped
C18_Witness ==
    /\ state = "connecting"
    /\ connectionInProgress = 1
    /\ awaitingConnected # <<>>
    /\ Only(AfterStop.effects, "_connectionFailed") # <<>>
    /\ AfterStop.state = "stopped"
    /\ AfterStop.connectionInProgress = 0

\* the position of the first call of the given kind in a delivery (0: none)
First(fx, op) ==
    IF \E i \in DOMAIN fx : fx[i].op = op
    THEN CHOOSE i \in DOMAIN fx : fx[i].op = op /\ \A j \in 1..(i - 1) : fx[j].op # op
    ELSE 0

\* C19 as stated: each connectionLost of a proxied connection runs the
\* lostNotification exactly once and before the wrapped protocol's
\* connectionLost; a second connectionLost of the same connection does not
\* run the lostNotification.
C19_NotifiedOnceBeforeRelay ==
    [][\A c \in 1..MaxConns :
          LET fx == AfterConnectionLost(c, 0).effects
          IN /\ ConnectionLost(c) =>
                   /\ Len(Only(fx, "lostNotification")) = 1
                   /\ First(fx, "lostNotification") < First(fx, "protocol.connectionLost")
             /\ ConnectionLostAgain(c) => Only(fx, "lostNotification") = <<>>]_vars

\* C19 amended: every connectionLost delivered to the proxy of a connection,
\* the first as well as a repeated one, first calls the wrapped protocol's
\* connectionLost and then runs the lostNotification exactly once, which
\* delivers _clientDisconnected to the machine.
C19_NotifiedAfterRelayEachTime ==
    [][\A c \in 1..MaxConns :
          LET fx == AfterConnectionLost(c, 0).effects
          IN (ConnectionLost(c) \/ ConnectionLostAgain(c)) =>
                /\ SubSeq(fx, 1, 3) = <<Effect("connectionLost", c),
                                       Effect("protocol.connectionLost", c),
                                       Effect("lostNotification", c)>>
                /\ Len(Only(fx, "lostNotification")) = 1
                /\ Len(Only(fx, "protocol.connectionLost")) = 1]_vars

\* a repeated connectionLost of an old connection reached the machine while
\* a new connection was up: the machine waits to retry and has forgotten a
\* connection that is still open
C19_Witness ==
    /\ state = "waiting"
    /\ currentConnection = 0
    /\ openConnections \ closing # {}

\* C20: a machine started with startAndFailTheFirstTime is in
\* connecting_first_time only until its first attempt ends.  A successful
\* first attempt leaves exactly the machine that the same success leaves
\* from connecting.  Once a connection has been made, a failed attempt or a
\* dropped connection leads to waiting with one more failure counted and one
\* retry call and touches no whenConnected Deferred, the retry call leads to
\* connecting, the machine enters stopped only through stop, and no
\* Deferred is given an endpoint failure.
C20_FailFastFirstAttemptOnly ==
    /\ [](/\ protocols >= 1 => state # "connecting_first_time"
          /\ state = "connecting_first_time" =>
                \A p \in 1..MaxConns :
                   _connectionMade(Cur, p) = _connectionMade(enter(Cur, "connecting"), p))
    /\ [][state' = "connecting_first_time" =>
             state \in {"init", "connecting_first_time"}]_vars
    /\ [][protocols >= 1 =>
             /\ (ConnectFails \/ ConnectionDrops) =>
                   /\ state' = "waiting"
                   /\ failedAttempts' = failedAttempts + 1
                   /\ Len(delayedCalls') = 1
                   /\ whenConnectedDeferreds' = whenConnectedDeferreds
             /\ RetryTimerFires =>
                   (state' = "connecting" /\ connectionInProgress' = 1)
             /\ (state # "stopped" /\ state' = "stopped") =>
                   (Stop \/ (state = "disconnecting" /\ CloseCompletes))
             /\ \A w \in DOMAIN whenConnectedDeferreds' :
                   whenConnectedDeferreds'[w].result.reason \in Reasons =>
                      /\ w \in DOMAIN whenConnectedDeferreds
                      /\ whenConnectedDeferreds[w] = whenConnectedDeferreds'[w]]_vars

\* started in fail-fast mode and never stopped: the first connection was
\* lost, a later attempt failed, and the machine waits to retry with a
\* waiter still pending
C20_Witness ==
    /\ state = "waiting"
    /\ protocols >= 1
    /\ failedAttempts >= 2
    /\ Len(delayedCalls) = 1
    /\ stopDeferreds = <<>>
    /\ awaitingConnected # <<>>

\* the whenConnected Deferreds a step fires, those among them whose callback
\* calls whenConnected() again, and the Deferreds those calls are given
FiredWaiters ==
    {w \in DOMAIN whenConnectedDeferreds :
        whenConnectedDeferreds[w].fired = 0 /\ whenConnectedDeferreds'[w].fired > 0}
InnerWaiters ==
    IF FiredWaiters \cap reentrant = {} THEN {}
    ELSE (DOMAIN whenConnectedDeferreds') \ DOMAIN whenConnectedDeferreds
\* what _unawait is called with
WaiterValues ==
    {Connection(p) : p \in 1..MaxConns} \cup {Failure(f) : f \in Reasons \cup {CancelledError}}

\* what C21 says of every run: no whenConnected Deferred fires more than
\* once, _unawait with no waiter registered leaves the machine as it was,
\* and the step that fires the registered waiters fires each of them and
\* leaves the list empty
C21_DrainedOnce ==
    /\ [](/\ \A w \in DOMAIN whenConnectedDeferreds : whenConnectedDeferreds[w].fired <= 1
          /\ Range(awaitingConnected) =
                {w \in DOMAIN whenConnectedDeferreds : whenConnectedDeferreds[w].fired = 0}
          /\ awaitingConnected = <<>> => \A v \in WaiterValues : _unawait(Cur, v) = Cur)
    /\ [][FiredWaiters # {} => FiredWaiters = Range(awaitingConnected)]_vars

\* C21 as stated: _unawait empties the list before it fires any waiter, so
\* each waiter fires at most once and firing no waiter changes nothing; and
\* a whenConnected() call made from the callback of a waiter that is being
\* fired is given a Deferred that the step leaves pending and registered,
\* to be fired by the next event that fires the waiters.
C21_InnerWaiterStaysPending ==
    /\ C21_DrainedOnce
    /\ [][\A d \in InnerWaiters :
             /\ whenConnectedDeferreds'[d] = Deferred
             /\ d \in Range(awaitingConnected')]_vars

\* C21 as the code has it: _unawait empties the list before it fires any
\* waiter, so each waiter fires at most once and firing no waiter changes
\* nothing; a whenConnected() call made from the callback of a waiter that
\* is being fired reaches a machine that has already entered connected or
\* stopped, so it is never registered: it is given a Deferred that has
\* already fired, with the current connection in connected and with
\* CancelledError in stopped (also when the waiter itself was failed with
\* the first attempt's failure), and the step leaves no waiter registered.
C21_InnerWaiterAnsweredAtOnce ==
    /\ C21_DrainedOnce
    /\ [][FiredWaiters # {} =>
             /\ awaitingConnected' = <<>>
             /\ state' \in {"connected", "stopped"}
             /\ \A d \in InnerWaiters :
                   whenConnectedDeferreds'[d] =
                      IF state' = "connected"
                      THEN succeed(Connection(currentConnection'))
                      ELSE Cancelled]_vars

\* an attempt is outstanding with a waiter registered whose callback calls
\* whenConnected(): the success of the attempt fires the waiter and answers
\* the call made from its callback with the new connection
C21_Witness ==
    /\ state = "connecting"
    /\ connectionInProgress > 0
    /\ protocols < MaxConns
    /\ awaitingConnected = <<1>>
    /\ reentrant = {1}
    /\ LET after == AfterConnectSucceeds
       IN /\ Args(Only(after.effects, "whenConnected.callback")) = <<1>>
          /\ Args(Only(after.effects, "whenConnected")) = <<1>>
          /\ after.whenConnectedDeferreds =
                <<succeed(Connection(protocols + 1)), succeed(Connection(protocols + 1))>>
          /\ after.awaitingConnected = <<>>
          /\ after.reentrant = {}

\* C22: stop called in connecting or connecting_first_time queues the stop
\* Deferred it returns and then cancels the attempt in flight; the cancel
\* delivers _connectionFailed inside the stop call, to a machine that is in
\* disconnecting (its outputs are those of disconnecting: the waiters are
\* cancelled and the stop Deferreds fired, in that order, no retry is
\* scheduled and no failure counted).  When stop returns the machine is in
\* stopped with no attempt outstanding, every whenConnected Deferred that
\* was pending has failed with CancelledError, and the returned Deferred has
\* fired.
C22_StopWhileConnecting ==
    [][(Stop /\ state \in {"connecting_first_time", "connecting"}) =>
          LET d == Len(stopDeferreds) + 1
          IN /\ AfterStop.effects =
                   <<Effect("stop", 0), Effect("stopWaiters.append", d),
                     Effect("connectionInProgress.cancel", 0),
                     Effect("_connectionFailed", 0)>>
                   \o [i \in DOMAIN awaitingConnected |->
                          Effect("whenConnected.callback", awaitingConnected[i])]
                   \o <<Effect("stop.callback", d)>>
             /\ state' = "stopped"
             /\ connectionInProgress' = 0
             /\ awaitingConnected' = <<>>
             /\ \A w \in Range(awaitingConnected) : whenConnectedDeferreds'[w] = Cancelled
             /\ stopWaiters' = <<>>
             /\ Len(stopDeferreds') = d
             /\ stopDeferreds'[d] = succeed(NoValue)
             /\ failedAttempts' = failedAttempts
             /\ delayedCalls' = delayedCalls]_vars

\* a retried attempt is in flight with a waiter pending: stop returns with
\* the machine stopped, the waiter cancelled and its own Deferred fired
C22_Witness ==
    /\ state = "connecting"
    /\ failedAttempts >= 1
    /\ connectionInProgress = 1
    /\ awaitingConnected # <<>>
    /\ Len(stopDeferreds) < MaxStops
    /\ AfterStop.state = "stopped"
    /\ AfterStop.awaitingConnected = <<>>
    /\ AfterStop.stopDeferreds[Len(stopDeferreds) + 1] = succeed(NoValue)
    /\ \A w \in Range(awaitingConnected) : AfterStop.whenConnectedDeferreds[w] = Cancelled

\* C23: between events the list of stop waiters is empty in every state but
\* disconnecting and restarting, and it holds exactly the stop Deferreds
\* that have not fired; so the failure of the first attempt of a fail-fast
\* machine, which enters stopped without _finishStopping, finds the list
\* empty and leaves no stop Deferred pending.
C23_StopWaitersOnlyWhileClosing ==
    /\ [](/\ stopWaiters # <<>> => state \in {"disconnecting", "restarting"}
          /\ Range(stopWaiters) =
                {i \in DOMAIN stopDeferreds : stopDeferreds[i].fired = 0})
    /\ [][(ConnectFails /\ state = "connecting_first_time") =>
             /\ stopWaiters = <<>>
             /\ state' = "stopped"
             /\ stopWaiters' = <<>>
             /\ stopDeferreds' = stopDeferreds
             /\ \A i \in DOMAIN stopDeferreds' : stopDeferreds'[i].fired = 1]_vars

\* the first attempt of a fail-fast machine failed with a waiter pending and
\* no stop ever called: the machine is stopped and no stop Deferred exists
C23_Witness ==
    /\ state = "stopped"
    /\ protocols = 0
    /\ stopDeferreds = <<>>
    /\ stopWaiters = <<>>
    /\ \E w \in DOMAIN whenConnectedDeferreds :
          whenConnectedDeferreds[w].result.reason \in Reasons

\* the machine s after its outstanding attempt fails with f
FailedNext(s, f, jit) ==
    _connectionFailed([s EXCEPT !.connectionInProgress = @ - 1], f, jit)

\* C24: the failed-attempt counter is 0 in connected and at least 1 in
\* waiting.  Neither stop nor start in stopped changes it, and a failed
\* attempt in connecting counts one more and schedules the retry call with
\* the policy's delay for the new count: from waiting with n failures, stop,
\* then start, then a failed attempt leave the machine waiting with n + 1
\* failures and one retry call of delay policy(n + 1).  start in
\* disconnecting leaves the counter at 0.
C24_CounterAcrossStopAndStart ==
    /\ [](/\ state = "connected" => failedAttempts = 0
          /\ state = "waiting" => failedAttempts >= 1
          /\ state = "waiting" =>
                \A f \in Reasons, jit \in MachineJitters :
                   LET stopped == stop(Cur)
                       restarted == start(stopped)
                       failed == FailedNext(restarted, f, jit)
                   IN /\ stopped.state = "stopped"
                      /\ stopped.failedAttempts = failedAttempts
                      /\ restarted.state = "connecting"
                      /\ restarted.failedAttempts = failedAttempts
                      /\ failed.state = "waiting"
                      /\ failed.failedAttempts = failedAttempts + 1
                      /\ failed.delayedCalls =
                            <<[attempt |-> failedAttempts + 1, jitter |-> jit,
                               delay |-> policy(timeoutForAttempt, failedAttempts + 1, jit)]>>)
    /\ [][/\ Stop => failedAttempts' = failedAttempts
          /\ (Start /\ state = "stopped") =>
                (state' = "connecting" /\ failedAttempts' = failedAttempts)
          /\ (Start /\ state = "disconnecting") =>
                (state' = "restarting" /\ failedAttempts' = 0)
          /\ (ConnectFails /\ state = "connecting") =>
                /\ failedAttempts' = failedAttempts + 1
                /\ \E jit \in MachineJitters :
                      delayedCalls' =
                         <<[attempt |-> failedAttempts + 1, jitter |-> jit,
                            delay |-> policy(timeoutForAttempt, failedAttempts + 1, jit)]>>]_vars

\* stopped with a failure counted and nothing pending: start and then a
\* failed attempt lead to waiting with one failure more
C24_Witness ==
    /\ state = "stopped"
    /\ failedAttempts = 1
    /\ protocols = 0
    /\ stopDeferreds # <<>>
    /\ AfterStart.state = "connecting"
    /\ AfterStart.failedAttempts = 1
    /\ \A f \in Reasons :
          LET failed == FailedNext(AfterStart, f, 0)
          IN /\ failed.state = "waiting"
             /\ failed.failedAttempts = 2
             /\ failed.delayedCalls[1].delay = policy(timeoutForAttempt, 2, 0)

\* C25: stop called while the first attempt of a fail-fast machine is in
\* flight fails every pending whenConnected Deferred with CancelledError,
\* none with an endpoint failure, and fires the Deferred it returns with
\* None; a whenConnected Deferred is failed with an endpoint failure only by
\* the failure of the first attempt in connecting_first_time, where no stop
\* has been called.
C25_StopDuringFirstAttempt ==
    /\ [][(Stop /\ state = "connecting_first_time") =>
             /\ state' = "stopped"
             /\ Args(Only(AfterStop.effects, "whenConnected.callback")) = awaitingConnected
             /\ \A w \in DOMAIN whenConnectedDeferreds' : whenConnectedDeferreds'[w] = Cancelled
             /\ stopDeferreds' = <<succeed(NoValue)>>]_vars
    /\ [][\A w \in DOMAIN whenConnectedDeferreds' :
             (/\ whenConnectedDeferreds'[w].result.reason \in Reasons
              /\ w \in DOMAIN whenConnectedDeferreds => whenConnectedDeferreds[w].fired = 0) =>
                /\ ConnectFails
                /\ state = "connecting_first_time"
                /\ stopDeferreds = <<>>
                /\ w \in Range(awaitingConnected)]_vars

\* the first attempt of a fail-fast machine is in flight with all the
\* waiters pending: stop cancels them and returns a fired Deferred
C25_Witness ==
    /\ state = "connecting_first_time"
    /\ connectionInProgress = 1
    /\ Len(awaitingConnected) = MaxWaiters
    /\ AfterStop.state = "stopped"
    /\ \A w \in Range(awaitingConnected) : AfterStop.whenConnectedDeferreds[w] = Cancelled
    /\ AfterStop.stopDeferreds = <<succeed(NoValue)>>

\* C26: startAndFailTheFirstTime has a transition in init only.  In every
\* other state, stopped included, the call raises NoTransition, runs no
\* output and leaves the machine exactly as it was.  So the machine enters
\* connecting_first_time from init only, never returns to init, and leaves
\* stopped only by start, for connecting.
C26_FailFastOnlyFromInit ==
    /\ [](/\ state = "init" =>
                /\ AfterStartAndFailTheFirstTime.state = "connecting_first_time"
                /\ Handled(AfterStartAndFailTheFirstTime)
          /\ state # "init" =>
                AfterStartAndFailTheFirstTime =
                   [Cur EXCEPT !.effects = <<Effect("startAndFailTheFirstTime", 0),
                                             Effect("NoTransition", 0)>>])
    /\ [][/\ state' = "connecting_first_time" =>
                \/ state = "connecting_first_time"
                \/ state = "init" /\ StartAndFailTheFirstTime
          /\ state' = "init" => state = "init"
          /\ (state = "stopped" /\ state' # "stopped") =>
                (Start /\ state' = "connecting")]_vars

\* stopped by the failure of the first attempt of a fail-fast machine:
\* startAndFailTheFirstTime is refused and start begins an attempt that is
\* retried
C26_Witness ==
    /\ state = "stopped"
    /\ protocols = 0
    /\ stopDeferreds = <<>>
    /\ \E w \in DOMAIN whenConnectedDeferreds :
          whenConnectedDeferreds[w].result.reason \in Reasons
    /\ ~ Handled(AfterStartAndFailTheFirstTime)
    /\ AfterStartAndFailTheFirstTime.state = "stopped"
    /\ AfterStart.state = "connecting"
    /\ AfterStart.connectionInProgress = 1

====
